---- MODULE Spec2Model ----
(***************************************************************************)
(* Model of src/generate_er_data.py: the ER data generator.                *)
(*                                                                         *)
(* Time stamps are integers counting minutes from a midnight (the          *)
(* datetime resolution, one microsecond in Python, is one minute here);    *)
(* calendar dates (birth dates, the wall clock's date) are day numbers.    *)
(* Real-valued draws are rationals: a draw of random.uniform is a grid     *)
(* point k/den of the unit interval, a vital's value is kept in tenths of  *)
(* its unit, which is what round(value, 1) leaves.                         *)
(*                                                                         *)
(* One run of the program is the record `run`: the generator's fields, the *)
(* module's globals, the environment (wall clock, OS entropy) and the      *)
(* locals of generate_all_data.  `twin` is a second run of the program,    *)
(* used by PairSpec, which replays the seeded random stream of `run`.      *)
(***************************************************************************)
EXTENDS Integers, Sequences, FiniteSets, TLC

VARIABLES run, twin

vars == <<run, twin>>

----------------------------------------------------------------------------
(* Bounds of the model *)

\* generate_arrival_times stops being explored once it holds this many arrivals
MaxArrivals == 2

\* the largest standard-exponential draw, in units of one mean
MaxExp == 2

\* random.uniform(0.5, 2.0) is drawn on the grid (MultiplierGrid + k) / (2 * MultiplierGrid)
MultiplierGrid == 2

\* random.uniform(lo, hi) of a vital is drawn at the points k / UniformGrid
UniformGrid == 1

----------------------------------------------------------------------------
(* Arithmetic *)

\* Python's round() and timedelta's rounding: n/d to the nearest integer, ties to even
RoundHalfEven(n, d) ==
    LET q == n \div d
        r == n % d
    IN  IF 2 * r < d THEN q
        ELSE IF 2 * r > d THEN q + 1
        ELSE IF q % 2 = 0 THEN q ELSE q + 1

\* int(): truncation toward zero of n/d
IntTrunc(n, d) ==
    IF n >= 0 THEN n \div d ELSE -((-n) \div d)

\* timedelta(minutes=n/d)
TimedeltaMinutes(n, d) == RoundHalfEven(n, d)

\* timedelta(hours=h)
TimedeltaHours(h) == 60 * h

\* datetime.hour
Hour(t) == (t \div 60) % 24

None == [none |-> TRUE]

----------------------------------------------------------------------------
(* Reference tables *)

Cond(n, c, s, a) == [name |-> n, icd10 |-> c, severity |-> s, avg_duration_min |-> a]

ER_CONDITIONS ==
    << Cond("Chest Pain", "R06.02", "high", 180),
       Cond("Abdominal Pain", "R10.9", "medium", 120),
       Cond("Shortness of Breath", "R06.02", "high", 150),
       Cond("Fever", "R50.9", "medium", 90),
       Cond("Headache", "R51", "low", 60),
       Cond("Trauma - Laceration", "S01.9", "medium", 90),
       Cond("Fracture", "S72.9", "high", 240),
       Cond("Asthma Exacerbation", "J45.901", "high", 180),
       Cond("Hypertension", "I10", "medium", 120),
       Cond("Urinary Tract Infection", "N39.0", "medium", 100),
       Cond("Pneumonia", "J18.9", "high", 300),
       Cond("Dehydration", "E86.0", "medium", 120),
       Cond("Gastroenteritis", "K52.9", "medium", 150),
       Cond("Back Pain", "M54.5", "low", 90),
       Cond("Seizure", "R56.9", "high", 200),
       Cond("Syncope", "R55", "medium", 120),
       Cond("Alcohol Intoxication", "F10.129", "medium", 180),
       Cond("Drug Overdose", "T50.901A", "high", 240),
       Cond("Burn", "T30.0", "high", 200),
       Cond("Anaphylaxis", "T78.2XXA", "high", 150) >>

PediatricConditions ==
    << Cond("Pediatric Fever", "R50.9", "medium", 90),
       Cond("Croup", "J05.0", "medium", 120) >>

GeriatricConditions ==
    << Cond("Fall", "W19.XXXA", "high", 180),
       Cond("Confusion", "R41.82", "medium", 150) >>

\* the keys of VITAL_SIGNS, in the dictionary's order
VitalNames ==
    << "temperature", "heart_rate", "blood_pressure_systolic",
       "blood_pressure_diastolic", "respiratory_rate", "oxygen_saturation" >>

VitalSet == {VitalNames[k] : k \in 1..Len(VitalNames)}

Vital(u, nlo, nhi, alo, ahi) ==
    [unit |-> u, normal_range |-> <<nlo, nhi>>, abnormal_range |-> <<alo, ahi>>]

\* ranges in tenths of the unit
VITAL_SIGNS ==
    [v \in VitalSet |->
        CASE v = "temperature" -> Vital("F", 970, 995, 950, 1040)
          [] v = "heart_rate" -> Vital("bpm", 600, 1000, 400, 1500)
          [] v = "blood_pressure_systolic" -> Vital("mmHg", 900, 1200, 700, 1800)
          [] v = "blood_pressure_diastolic" -> Vital("mmHg", 600, 800, 400, 1200)
          [] v = "respiratory_rate" -> Vital("/min", 120, 200, 80, 300)
          [] v = "oxygen_saturation" -> Vital("%", 950, 1000, 850, 1000)]

----------------------------------------------------------------------------
(* ERDataGenerator.__init__ and the state of a run before generation *)

NewGenerator(start_time, duration_hours, today, entropy) ==
    [ start_time       |-> start_time,
      end_time         |-> start_time + TimedeltaHours(duration_hours),
      current_time     |-> start_time,
      patients         |-> << >>,
      patient_counter  |-> 1,
      resource_counter |-> 1,
      \* module globals and environment
      er_conditions    |-> ER_CONDITIONS,
      today            |-> today,
      entropy          |-> entropy,
      uuid_calls       |-> 0,
      \* locals of generate_arrival_times and generate_all_data
      pc               |-> "idle",
      current          |-> start_time,
      arrivals         |-> << >>,
      arrival_times    |-> << >>,
      i                |-> 0,
      patient_data     |-> None,
      condition        |-> None,
      available_conditions |-> << >>,
      vitals           |-> None,
      vital_idx        |-> 0,
      vitals_calls     |-> 0,
      observation_times |-> << >>,
      fhir_resources   |-> << >>,
      hl7_messages     |-> << >>,
      fhir_len         |-> 0,
      hl7_len          |-> 0,
      issued           |-> << >>,
      \* the MRN tokens a caller of generate_patient has been handed (PatientSpec)
      received         |-> << >> ]

----------------------------------------------------------------------------
(* generate_arrival_times *)

\* the bounds of random.uniform for the arrival rate at an hour of the day
LambdaRange(hour) ==
    IF 18 <= hour \/ hour < 2 THEN <<4, 8>>
    ELSE IF 2 <= hour /\ hour < 8 THEN <<1, 3>>
    ELSE <<2, 5>>

\* the rates drawn in the model: the two ends of the range
LambdaDraws(hour) == {LambdaRange(hour)[1], LambdaRange(hour)[2]}

\* np.random.exponential(60 / lambda_rate): e standard-exponential units of the mean
\* 60/lambda_rate, as timedelta(minutes=...) stores it
InterArrival(lambda_rate, e) == TimedeltaMinutes(60 * e, lambda_rate)

\* the test that guards the append of an arrival
InWindow(r, t) == t < r.end_time

\* one pass of the while loop that advances current only when the new time is
\* still in the window
ArrivalIterationInWindowOnly(r, lambda_rate, e) ==
    LET next == r.current + InterArrival(lambda_rate, e)
    IN  IF InWindow(r, next)
            THEN [r EXCEPT !.current = next, !.arrivals = Append(@, next)]
            ELSE r

\* one pass of the while loop
ArrivalIteration(r, lambda_rate, e) ==
    LET next == r.current + InterArrival(lambda_rate, e)
    IN  [r EXCEPT !.current = next,
                  !.arrivals = IF InWindow(r, next) THEN Append(@, next) ELSE @]

\* entry of generate_arrival_times
ArrivalEntry(r) ==
    [r EXCEPT !.arrivals = << >>, !.current = r.start_time]

----------------------------------------------------------------------------
(* generate_patient *)

RECURSIVE Digits(_)
\* the decimal digits of n >= 0
Digits(n) == IF n < 10 THEN <<n>> ELSE Append(Digits(n \div 10), n % 10)

RECURSIVE ZeroPad(_, _)
\* the digits s padded with zeros on the left to a width of at least w
ZeroPad(s, w) == IF Len(s) >= w THEN s ELSE ZeroPad(<<0>> \o s, w)

\* f"PAT{n:06d}"
PatientId(n) == [prefix |-> "PAT", digits |-> ZeroPad(Digits(n), 6)]

\* f"MRN{n}"
MrnToken(n) == [prefix |-> "MRN", digits |-> Digits(n)]

\* fake.date_of_birth(minimum_age=0, maximum_age=100): a date age_days before the
\* wall clock's date, age_days drawn from the seeded stream
DateOfBirth(today, age_days) == today - age_days

\* generate_patient without its last statement, self.patient_counter += 1
GeneratePatientNoIncrement(r, arrival_time, gender, age_days, mrn) ==
    LET patient_data ==
            [ id           |-> PatientId(r.patient_counter),
              mrn          |-> MrnToken(mrn),
              arrival_time |-> arrival_time,
              name         |-> <<"First", "Last">>,
              gender       |-> gender,
              birth_date   |-> DateOfBirth(r.today, age_days),
              address      |-> "address",
              phone        |-> "phone" ]
    IN  [r EXCEPT !.patient_data = patient_data,
                  !.issued = Append(@, patient_data.id)]

\* generate_patient(arrival_time) with the draws gender, age_days, mrn
GeneratePatientOp(r, arrival_time, gender, age_days, mrn) ==
    LET patient_data ==
            [ id           |-> PatientId(r.patient_counter),
              mrn          |-> MrnToken(mrn),
              arrival_time |-> arrival_time,
              name         |-> <<"First", "Last">>,
              gender       |-> gender,
              birth_date   |-> DateOfBirth(r.today, age_days),
              address      |-> "address",
              phone        |-> "phone" ]
    IN  [r EXCEPT !.patient_data = patient_data,
                  !.patient_counter = @ + 1,
                  !.issued = Append(@, patient_data.id)]

----------------------------------------------------------------------------
(* select_condition *)

\* (datetime.now().date() - birth_date).days // 365
Age(today, birth_date) == (today - birth_date) \div 365

\* the pool built without .copy(): extend() then changes ER_CONDITIONS itself
AvailableConditionsInPlace(table, age) ==
    LET extended == IF age < 18 THEN table \o PediatricConditions
                    ELSE IF age > 65 THEN table \o GeriatricConditions
                    ELSE table
    IN  [pool |-> extended, table |-> extended]

\* the candidate pool: a copy of the table, extended by the age's conditions;
\* table is the module's ER_CONDITIONS after the call
AvailableConditions(table, age) ==
    [ pool  |-> IF age < 18 THEN table \o PediatricConditions
                ELSE IF age > 65 THEN table \o GeriatricConditions
                ELSE table,
      table |-> table ]

\* avg_duration_min * int(m): the truncation taken before the product
DurationMinutesIntFirst(avg_duration_min, m_num, m_den) ==
    avg_duration_min * IntTrunc(m_num, m_den)

\* int(avg_duration_min * m) for the multiplier m = m_num / m_den
DurationMinutes(avg_duration_min, m_num, m_den) ==
    IntTrunc(avg_duration_min * m_num, m_den)

\* arrival_time + timedelta(minutes=duration_minutes)
DischargeTime(arrival_time, duration_minutes) ==
    arrival_time + TimedeltaMinutes(duration_minutes, 1)

\* select_condition(patient_data): pick is the index random.choice draws,
\* m_num / m_den the draw of random.uniform(0.5, 2.0)
SelectConditionOp(r, pick, m_num, m_den) ==
    LET age == Age(r.today, r.patient_data.birth_date)
        av == AvailableConditions(r.er_conditions, age)
        condition == av.pool[pick]
        duration_minutes == DurationMinutes(condition.avg_duration_min, m_num, m_den)
    IN  [r EXCEPT
            !.er_conditions = av.table,
            !.available_conditions = av.pool,
            !.condition =
                [ name |-> condition.name,
                  icd10 |-> condition.icd10,
                  severity |-> condition.severity,
                  avg_duration_min |-> condition.avg_duration_min,
                  duration_minutes |-> duration_minutes,
                  discharge_time |->
                      DischargeTime(r.patient_data.arrival_time, duration_minutes) ]]

\* the number of candidates random.choice draws from
PoolSize(r) ==
    Len(AvailableConditions(r.er_conditions,
                            Age(r.today, r.patient_data.birth_date)).pool)

----------------------------------------------------------------------------
(* generate_vitals *)

\* random.uniform(lo, hi) at the grid point u_num/u_den, as the rational
\* <<numerator, denominator>> (lo and hi in tenths)
Uniform(lo, hi, u_num, u_den) == <<lo * u_den + (hi - lo) * u_num, u_den>>

\* round(value, 1), in tenths
Round1(value) == RoundHalfEven(value[1], value[2])

\* the range the severity and the roll (random.random() in tenths) choose
ChosenRange(condition, vital_info, roll) ==
    IF condition.severity = "high" /\ roll < 7 THEN vital_info.abnormal_range
    ELSE IF condition.severity = "medium" /\ roll < 4 THEN vital_info.abnormal_range
    ELSE vital_info.normal_range

\* the value the loop's range-based sample gives, before the adjustments
RangeSample(condition, vital_name, d) ==
    LET range == ChosenRange(condition, VITAL_SIGNS[vital_name], d.roll)
    IN  Uniform(range[1], range[2], d.u, d.den)

\* the loop's pass without the test on vital_name in the second adjustment
VitalReadingAdjustsAll(condition, vital_name, d) ==
    LET sampled == RangeSample(condition, vital_name, d)
        value ==
            IF condition.name = "Fever" /\ vital_name = "temperature"
                THEN Uniform(1000, 1030, d.u2, d.den)
            ELSE IF condition.name \in {"Asthma Exacerbation", "Shortness of Breath"}
                THEN IF vital_name = "oxygen_saturation"
                        THEN Uniform(880, 950, d.u2, d.den)
                        ELSE Uniform(200, 300, d.u2, d.den)
            ELSE sampled
    IN  [value |-> Round1(value), unit |-> VITAL_SIGNS[vital_name].unit]

\* the loop's pass without the adjustment for "Fever"
VitalReadingNoFever(condition, vital_name, d) ==
    LET sampled == RangeSample(condition, vital_name, d)
        value ==
            IF condition.name \in {"Asthma Exacerbation", "Shortness of Breath"}
                THEN IF vital_name = "respiratory_rate"
                        THEN Uniform(200, 300, d.u2, d.den)
                     ELSE IF vital_name = "oxygen_saturation"
                        THEN Uniform(880, 950, d.u2, d.den)
                     ELSE sampled
            ELSE sampled
    IN  [value |-> Round1(value), unit |-> VITAL_SIGNS[vital_name].unit]

\* one pass of the loop over VITAL_SIGNS: the reading stored for vital_name, with
\* the draws d = [roll, u, u2, den]
VitalReading(condition, vital_name, d) ==
    LET sampled == RangeSample(condition, vital_name, d)
        value ==
            IF condition.name = "Fever" /\ vital_name = "temperature"
                THEN Uniform(1000, 1030, d.u2, d.den)
            ELSE IF condition.name \in {"Asthma Exacerbation", "Shortness of Breath"}
                THEN IF vital_name = "respiratory_rate"
                        THEN Uniform(200, 300, d.u2, d.den)
                     ELSE IF vital_name = "oxygen_saturation"
                        THEN Uniform(880, 950, d.u2, d.den)
                     ELSE sampled
            ELSE sampled
    IN  [value |-> Round1(value), unit |-> VITAL_SIGNS[vital_name].unit]

\* vitals[vital_name] = reading
SetItem(vitals, key, reading) ==
    [v \in DOMAIN vitals \cup {key} |-> IF v = key THEN reading ELSE vitals[v]]

\* the k-th pass of the loop of generate_vitals
VitalsIteration(r, d) ==
    LET vital_name == VitalNames[r.vital_idx]
    IN  [r EXCEPT !.vitals = SetItem(@, vital_name,
                                     VitalReading(r.condition, vital_name, d)),
                  !.vital_idx = @ + 1]

\* entry of generate_vitals
VitalsEntry(r) ==
    [r EXCEPT !.vitals = << >>, !.vital_idx = 1, !.vitals_calls = @ + 1]

RECURSIVE VitalsLoop(_, _)
\* the passes of the loop that remain, with the draws tape[vital_name]
VitalsLoop(r, tape) ==
    IF r.vital_idx > Len(VitalNames) THEN r
    ELSE VitalsLoop(VitalsIteration(r, tape[VitalNames[r.vital_idx]]), tape)

\* generate_vitals(condition) as one call
GenerateVitalsOp(r, tape) == VitalsLoop(VitalsEntry(r), tape)

----------------------------------------------------------------------------
(* The records generate_all_data appends for one patient *)

\* datetime.isoformat() and strftime('%Y%m%d%H%M%S')
IsoFormat(t) == <<"iso", t>>
StrfTime(t) == <<"ts", t>>

\* uuid.uuid4(): the n-th identifier the operating system's entropy gives this run
Uuid4(entropy, n) == <<"uuid", entropy, n>>

\* observation_times with the test duration_minutes >= 120
ObservationTimesAtLeast(arrival_time, duration_minutes) ==
    IF duration_minutes >= 120
        THEN <<arrival_time, arrival_time + TimedeltaMinutes(duration_minutes \div 2, 1)>>
        ELSE <<arrival_time>>

\* observation_times of generate_all_data
ObservationTimes(arrival_time, duration_minutes) ==
    IF duration_minutes > 120
        THEN <<arrival_time, arrival_time + TimedeltaMinutes(duration_minutes \div 2, 1)>>
        ELSE <<arrival_time>>

\* the pairs (obs_time, vital_name) in the order of the two nested loops
ObservationSlots(observation_times) ==
    [k \in 1..(Len(observation_times) * Len(VitalNames)) |->
        [ obs_time   |-> observation_times[((k - 1) \div Len(VitalNames)) + 1],
          vital_name |-> VitalNames[((k - 1) % Len(VitalNames)) + 1] ]]

\* create_fhir_patient, create_fhir_encounter, create_fhir_condition,
\* create_fhir_observation and the appends to fhir_resources.
\* fhir_resources keeps the records appended for the patient in hand; the records
\* of the patients before are counted by fhir_len.
CreateFhirOp(r) ==
    LET pd == r.patient_data
        rc == r.resource_counter
        observation_times ==
            ObservationTimes(pd.arrival_time, r.condition.duration_minutes)
        slots == ObservationSlots(observation_times)
        fhir_patient ==
            [ resourceType |-> "Patient",
              data |-> [ id |-> pd.id, identifier |-> pd.mrn, name |-> pd.name,
                         gender |-> pd.gender, birthDate |-> IsoFormat(pd.birth_date) ],
              timestamp |-> IsoFormat(pd.arrival_time) ]
        fhir_encounter ==
            [ resourceType |-> "Encounter",
              data |-> [ id |-> <<"ENC", rc>>, subject |-> pd.id,
                         start |-> IsoFormat(pd.arrival_time),
                         end |-> IsoFormat(r.condition.discharge_time) ],
              timestamp |-> IsoFormat(pd.arrival_time) ]
        fhir_condition ==
            [ resourceType |-> "Condition",
              data |-> [ id |-> <<"COND", rc + 1>>, subject |-> pd.id,
                         code |-> r.condition.icd10, text |-> r.condition.name,
                         onsetDateTime |-> IsoFormat(pd.arrival_time) ],
              timestamp |-> IsoFormat(pd.arrival_time) ]
        fhir_obs(k) ==
            [ resourceType |-> "Observation",
              data |-> [ id |-> <<"OBS", rc + 1 + k, slots[k].vital_name>>,
                         subject |-> pd.id,
                         effectiveDateTime |-> IsoFormat(slots[k].obs_time),
                         value |-> r.vitals[slots[k].vital_name].value,
                         unit |-> r.vitals[slots[k].vital_name].unit ],
              timestamp |-> IsoFormat(slots[k].obs_time) ]
        appended ==
            <<fhir_patient, fhir_encounter, fhir_condition>>
                \o [k \in 1..Len(slots) |-> fhir_obs(k)]
    IN  [r EXCEPT !.observation_times = observation_times,
                  !.resource_counter = rc + 2 + Len(slots),
                  !.fhir_resources = appended,
                  !.fhir_len = @ + Len(appended)]

\* create_hl7_adt_message, create_hl7_oru_message and the appends to hl7_messages.
\* hl7_messages keeps the messages appended for the patient in hand; the messages
\* of the patients before are counted by hl7_len.
CreateHl7Op(r) ==
    LET pd == r.patient_data
        slots == ObservationSlots(r.observation_times)
        hl7_adt ==
            [ type |-> "ADT^A01",
              message |-> [ msh |-> <<StrfTime(pd.arrival_time),
                                      Uuid4(r.entropy, r.uuid_calls + 1)>>,
                            pid |-> <<pd.mrn, pd.name, StrfTime(pd.birth_date),
                                      pd.gender, pd.address, pd.phone>>,
                            dg1 |-> <<r.condition.icd10, r.condition.name>> ],
              timestamp |-> IsoFormat(pd.arrival_time) ]
        hl7_oru(k) ==
            [ type |-> "ORU^R01",
              message |-> [ msh |-> <<StrfTime(slots[k].obs_time),
                                      Uuid4(r.entropy, r.uuid_calls + 1 + k)>>,
                            pid |-> <<pd.mrn, pd.name>>,
                            obr |-> <<slots[k].vital_name, StrfTime(slots[k].obs_time)>>,
                            obx |-> <<slots[k].vital_name,
                                      r.vitals[slots[k].vital_name].value>> ],
              timestamp |-> IsoFormat(slots[k].obs_time) ]
        appended == <<hl7_adt>> \o [k \in 1..Len(slots) |-> hl7_oru(k)]
    IN  [r EXCEPT !.uuid_calls = @ + Len(appended),
                  !.hl7_messages = appended,
                  !.hl7_len = @ + Len(appended),
                  !.i = @ + 1]

----------------------------------------------------------------------------
(* The draws of the seeded random stream and the environment's values *)

Genders == {"male", "female", "other"}

\* ages in days at the two bracket borders: 17 and 18 years, 65 and 66 years
BorderAgeDays == {6569, 6570, 24089, 24090}

\* ages in days from a newborn to a centenarian
AllAgeDays == BorderAgeDays \cup {0, 36500}

\* random.randint(100000, 999999): the two ends
MrnDraws == {100000, 999999}

\* random.uniform(0.5, 2.0) as <<numerator, denominator>>
FineMultipliers ==
    {<<MultiplierGrid + k, 2 * MultiplierGrid>> : k \in 0..(3 * MultiplierGrid)}

CoarseMultipliers == {<<1, 2>>, <<3, 2>>, <<2, 1>>}

\* random.random() in tenths: the two sides of 0.4 and of 0.7
RollDraws == {3, 4, 6, 7}

\* the draws of one pass of the loop of generate_vitals: roll is drawn when the
\* severity is high or medium, u2 when an adjustment applies (0 stands for no draw)
VitalDraws(condition, vital_name) ==
    LET adjusted ==
            \/ condition.name = "Fever" /\ vital_name = "temperature"
            \/ /\ condition.name \in {"Asthma Exacerbation", "Shortness of Breath"}
               /\ vital_name \in {"respiratory_rate", "oxygen_saturation"}
    IN  [ roll : IF condition.severity \in {"high", "medium"} THEN RollDraws ELSE {0},
          u : 0..UniformGrid,
          u2 : IF adjusted THEN 0..UniformGrid ELSE {0},
          den : {UniformGrid} ]

\* tapes that give every pass of the loop the same draws
ConstantTapes(rolls, us) ==
    {[v \in VitalSet |-> [roll |-> roll, u |-> k, u2 |-> k, den |-> UniformGrid]] :
        roll \in rolls, k \in us}

\* np.random.exponential in units of its mean
ExpDraws == 0..MaxExp

\* the day the wall clock shows, and the state of the operating system's entropy
Todays == {40000, 40001}
Entropies == {"e1", "e2"}

\* start times: 01:30, 07:30 and 17:30 of the first day
StartTimes == {90, 450, 1050}

DurationHours == {-1, 0, 1}

\* the draws of a run of generate_all_data, by specification
PipelineDraws ==
    [ genders |-> Genders, ages |-> {6569, 6570, 24090}, mrns |-> MrnDraws,
      multipliers |-> CoarseMultipliers, tapes |-> ConstantTapes({3}, {0}),
      exps |-> {0, 1} ]

PairDraws ==
    [ genders |-> {"female"}, ages |-> {6569, 24090}, mrns |-> {100000},
      multipliers |-> {<<1, 2>>, <<2, 1>>}, tapes |-> ConstantTapes({3}, {0}),
      exps |-> {0, 1} ]

ConditionDraws ==
    [ genders |-> {"female"}, ages |-> AllAgeDays, mrns |-> {100000},
      multipliers |-> FineMultipliers, tapes |-> ConstantTapes({3}, {0}),
      exps |-> ExpDraws ]

ArrivalDraws == [exps |-> ExpDraws]

\* np.random.exponential in units of its mean, the draws of at least one unit:
\* every gap is then at least 60 / 8 minutes
PositiveExpDraws == 1..MaxExp

\* random.randint(100000, 999999) for PatientSpec: the two ends and a neighbour
PatientDraws ==
    [ genders |-> Genders, ages |-> {6569, 6570},
      mrns |-> {100000, 100001, 999999} ]

----------------------------------------------------------------------------
(* The steps of generate_all_data.  An action takes the draws D of its         *)
(* specification; with paired it moves twin by the same seeded draws.          *)

Advance(next_run, next_twin, paired) ==
    /\ run' = next_run
    /\ twin' = IF paired THEN next_twin ELSE twin

At(r, pc) == [r EXCEPT !.pc = pc]

\* arrival_times = self.generate_arrival_times(): entry
GenerateAllDataAct(paired) ==
    /\ run.pc = "idle"
    /\ Advance(At(ArrivalEntry(run), "arrivals"),
               At(ArrivalEntry(twin), "arrivals"), paired)

\* one pass of the while loop of generate_arrival_times
ArrivalLoopAct(D, paired) ==
    /\ run.pc = "arrivals"
    /\ run.current < run.end_time
    /\ \E lambda_rate \in LambdaDraws(Hour(run.current)), e \in D.exps :
          /\ Len(ArrivalIteration(run, lambda_rate, e).arrivals) <= MaxArrivals
          /\ Advance(ArrivalIteration(run, lambda_rate, e),
                  ArrivalIteration(twin, lambda_rate, e), paired)

ArrivalReturnOp(r) ==
    [r EXCEPT !.arrival_times = r.arrivals, !.fhir_resources = << >>,
              !.hl7_messages = << >>, !.i = 0, !.pc = "loop"]

\* return arrivals, and the lines of generate_all_data before its loop
ArrivalReturnAct(paired) ==
    /\ run.pc = "arrivals"
    /\ ~(run.current < run.end_time)
    /\ Advance(ArrivalReturnOp(run), ArrivalReturnOp(twin), paired)

\* the head of a pass of the loop: the locals the pass before has left are dead
\* (each is assigned before it is read), and the records it appended are final
NewPass(r) ==
    [r EXCEPT !.patient_data = None, !.condition = None,
              !.available_conditions = << >>, !.vitals = None, !.vital_idx = 0,
              !.vitals_calls = 0, !.observation_times = << >>,
              !.fhir_resources = << >>, !.hl7_messages = << >>]

\* patient_data = self.generate_patient(arrival_time)
GeneratePatientAct(D, paired) ==
    /\ run.pc = "loop"
    /\ run.i < Len(run.arrival_times)
    /\ \E gender \in D.genders, age_days \in D.ages, mrn \in D.mrns :
          Advance(
            At(GeneratePatientOp(NewPass(run),
                                 run.arrival_times[run.i + 1], gender, age_days, mrn),
               "select_condition"),
            At(GeneratePatientOp(NewPass(twin),
                                 twin.arrival_times[twin.i + 1], gender, age_days, mrn),
               "select_condition"),
            paired)

\* condition = self.select_condition(patient_data)
SelectConditionAct(D, paired) ==
    /\ run.pc = "select_condition"
    /\ \E pick \in 1..PoolSize(run), m \in D.multipliers :
          Advance(At(SelectConditionOp(run, pick, m[1], m[2]), "generate_vitals"),
                  At(SelectConditionOp(twin, pick, m[1], m[2]), "generate_vitals"),
                  paired)

\* vitals = self.generate_vitals(condition)
GenerateVitalsAct(D, paired) ==
    /\ run.pc = "generate_vitals"
    /\ \E tape \in D.tapes :
          Advance(At(GenerateVitalsOp(run, tape), "create_fhir"),
                  At(GenerateVitalsOp(twin, tape), "create_fhir"), paired)

\* the FHIR resources of the patient
CreateFhirAct(paired) ==
    /\ run.pc = "create_fhir"
    /\ Advance(At(CreateFhirOp(run), "create_hl7"),
               At(CreateFhirOp(twin), "create_hl7"), paired)

\* the HL7 messages of the patient, and the end of the loop's pass
CreateHl7Act(paired) ==
    /\ run.pc = "create_hl7"
    /\ Advance(At(CreateHl7Op(run), "loop"), At(CreateHl7Op(twin), "loop"), paired)

\* return fhir_resources, hl7_messages
ReturnAct(paired) ==
    /\ run.pc = "loop"
    /\ ~(run.i < Len(run.arrival_times))
    /\ Advance(At(run, "done"), At(twin, "done"), paired)

----------------------------------------------------------------------------
(* Spec: one generator, one call of generate_all_data *)

Init ==
    /\ \E start_time \in {1020}, duration_hours \in DurationHours :
          run = NewGenerator(start_time, duration_hours, 40000, "e1")
    /\ twin = None

GenerateAllData == GenerateAllDataAct(FALSE)
ArrivalLoop == ArrivalLoopAct(PipelineDraws, FALSE)
ArrivalReturn == ArrivalReturnAct(FALSE)
GeneratePatient == GeneratePatientAct(PipelineDraws, FALSE)
SelectCondition == SelectConditionAct(PipelineDraws, FALSE)
GenerateVitals == GenerateVitalsAct(PipelineDraws, FALSE)
CreateFhir == CreateFhirAct(FALSE)
CreateHl7 == CreateHl7Act(FALSE)
Return == ReturnAct(FALSE)

Next ==
    \/ GenerateAllData
    \/ ArrivalLoop
    \/ ArrivalReturn
    \/ GeneratePatient
    \/ SelectCondition
    \/ GenerateVitals
    \/ CreateFhir
    \/ CreateHl7
    \/ Return

Spec == Init /\ [][Next]_vars

----------------------------------------------------------------------------
(* ArrivalSpec: generate_arrival_times called on a new generator *)

ArrivalInit ==
    /\ \E start_time \in StartTimes, duration_hours \in DurationHours \cup {2} :
          run = At(ArrivalEntry(NewGenerator(start_time, duration_hours, 40000, "e1")),
                   "arrivals")
    /\ twin = None

ArrivalLoopAlone == ArrivalLoopAct(ArrivalDraws, FALSE)

ArrivalNext == ArrivalLoopAlone \/ ArrivalReturn

ArrivalSpec == ArrivalInit /\ [][ArrivalNext]_vars

----------------------------------------------------------------------------
(* ArrivalLiveSpec: generate_arrival_times over a window with end_time >         *)
(* start_time and gaps bounded below by a positive minimum.  The program is      *)
(* sequential and nothing suspends it: a statement that can execute does, which  *)
(* is weak fairness of the loop's pass and of the return.                        *)

ArrivalLiveInit ==
    /\ \E start_time \in StartTimes, duration_hours \in {1, 2} :
          run = At(ArrivalEntry(NewGenerator(start_time, duration_hours, 40000, "e1")),
                   "arrivals")
    /\ twin = None

\* one pass of the while loop, with a gap of at least the minimum
ArrivalLoopPositive ==
    /\ run.pc = "arrivals"
    /\ run.current < run.end_time
    /\ \E lambda_rate \in LambdaDraws(Hour(run.current)), e \in PositiveExpDraws :
          run' = ArrivalIteration(run, lambda_rate, e)
    /\ UNCHANGED twin

ArrivalLiveNext == ArrivalLoopPositive \/ ArrivalReturn

ArrivalLiveSpec ==
    /\ ArrivalLiveInit
    /\ [][ArrivalLiveNext]_vars
    /\ WF_vars(ArrivalLoopPositive)
    /\ WF_vars(ArrivalReturn)

----------------------------------------------------------------------------
(* ConditionSpec: select_condition called for one patient after another *)

ConditionInit ==
    /\ \E age_days \in AllAgeDays :
          run = At(GeneratePatientOp(NewGenerator(1020, 1, 40000, "e1"),
                                     1020, "female", age_days, 100000),
                   "select_condition")
    /\ twin = None

SelectConditionAlone == SelectConditionAct(ConditionDraws, FALSE)

\* the caller hands select_condition the next patient
NextPatient ==
    /\ run.pc = "generate_vitals"
    /\ \E age_days \in AllAgeDays :
          run' = [run EXCEPT !.patient_data.birth_date = DateOfBirth(run.today, age_days),
                             !.pc = "select_condition"]
    /\ UNCHANGED twin

ConditionNext == SelectConditionAlone \/ NextPatient

ConditionSpec == ConditionInit /\ [][ConditionNext]_vars

----------------------------------------------------------------------------
(* VitalsSpec: generate_vitals called with a condition select_condition returns, *)
(* its loop taken one pass at a time with independent draws                      *)

VitalsInit ==
    /\ \E age_days \in {6569, 6570, 24090} :
          \E pick \in 1..(Len(ER_CONDITIONS) + 2) :
             /\ pick <= Len(ER_CONDITIONS) => age_days = 6570
             /\ pick > Len(ER_CONDITIONS) => age_days # 6570
             /\ run = At(VitalsEntry(
                           SelectConditionOp(
                              GeneratePatientOp(NewGenerator(1020, 1, 40000, "e1"),
                                                1020, "female", age_days, 100000),
                              pick, 1, 1)),
                         "vitals_loop")
    /\ twin = None

VitalsLoopStep ==
    /\ run.pc = "vitals_loop"
    /\ run.vital_idx <= Len(VitalNames)
    /\ \E d \in VitalDraws(run.condition, VitalNames[run.vital_idx]) :
          run' = VitalsIteration(run, d)
    /\ UNCHANGED twin

VitalsReturn ==
    /\ run.pc = "vitals_loop"
    /\ run.vital_idx > Len(VitalNames)
    /\ run' = At(run, "vitals_done")
    /\ UNCHANGED twin

VitalsNext == VitalsLoopStep \/ VitalsReturn

VitalsSpec == VitalsInit /\ [][VitalsNext]_vars

----------------------------------------------------------------------------
(* PairSpec: two runs of the program over the same window and from the same      *)
(* seed, each with its own wall clock and operating-system entropy               *)

PairInit ==
    \E today \in Todays, entropy \in Entropies :
        /\ run = NewGenerator(1020, 1, 40000, "e1")
        /\ twin = NewGenerator(1020, 1, today, entropy)

PairGenerateAllData == GenerateAllDataAct(TRUE)
PairArrivalLoop == ArrivalLoopAct(PairDraws, TRUE)
PairArrivalReturn == ArrivalReturnAct(TRUE)
PairGeneratePatient == GeneratePatientAct(PairDraws, TRUE)
PairSelectCondition == SelectConditionAct(PairDraws, TRUE)
PairGenerateVitals == GenerateVitalsAct(PairDraws, TRUE)
PairCreateFhir == CreateFhirAct(TRUE)
PairCreateHl7 == CreateHl7Act(TRUE)
PairReturn == ReturnAct(TRUE)

PairNext ==
    \/ PairGenerateAllData
    \/ PairArrivalLoop
    \/ PairArrivalReturn
    \/ PairGeneratePatient
    \/ PairSelectCondition
    \/ PairGenerateVitals
    \/ PairCreateFhir
    \/ PairCreateHl7
    \/ PairReturn

PairSpec == PairInit /\ [][PairNext]_vars

----------------------------------------------------------------------------
(* PatientSpec: generate_patient called for one arrival after another, the       *)
(* caller keeping the MRN token of every patient it is handed                    *)

PatientInit ==
    /\ run = At(NewGenerator(1020, 1, 40000, "e1"), "patients")
    /\ twin = None

GeneratePatientAlone ==
    /\ run.pc = "patients"
    /\ Len(run.issued) <= MaxArrivals
    /\ \E gender \in PatientDraws.genders, age_days \in PatientDraws.ages,
          mrn \in PatientDraws.mrns :
          LET r == GeneratePatientOp(run, run.start_time + Len(run.issued),
                                     gender, age_days, mrn)
          IN  run' = [r EXCEPT !.received = Append(@, r.patient_data.mrn)]
    /\ UNCHANGED twin

PatientNext == GeneratePatientAlone

PatientSpec == PatientInit /\ [][PatientNext]_vars

----------------------------------------------------------------------------
(* C1: generate_arrival_times *)

\* C1: the arrivals are strictly increasing and every one of them lies in
\* [start_time, end_time), whatever gaps are sampled
ArrivalsStrictlyIncreasingInWindow ==
    \A k \in 1..Len(run.arrivals) :
        /\ run.start_time <= run.arrivals[k]
        /\ run.arrivals[k] < run.end_time
        /\ k > 1 => run.arrivals[k - 1] < run.arrivals[k]

----------------------------------------------------------------------------
(* C2: determinism *)

\* a pass of the loop, or the call, is complete in both runs
PassComplete == run.pc \in {"loop", "done"}

\* C2: two runs from the same seed over the same window agree, pass by pass, on
\* the arrivals, the patient, the condition, the vitals and the records and
\* messages emitted
SameSeedSameOutputs ==
    PassComplete =>
        /\ run.arrival_times = twin.arrival_times
        /\ run.patient_data = twin.patient_data
        /\ run.condition = twin.condition
        /\ run.vitals = twin.vitals
        /\ run.observation_times = twin.observation_times
        /\ run.fhir_resources = twin.fhir_resources
        /\ run.fhir_len = twin.fhir_len
        /\ run.hl7_messages = twin.hl7_messages
        /\ run.hl7_len = twin.hl7_len

----------------------------------------------------------------------------
(* C3, C4: the observation snapshots of a patient *)

\* the pass of the loop has set observation_times for the patient in hand
SnapshotsSet == run.pc = "create_hl7" \/ (run.pc \in {"loop", "done"} /\ run.i > 0)

\* C3: a patient has 1 or 2 observation times, the first the arrival time; 2 if and
\* only if duration_minutes > 120, the second then arrival_time + duration_minutes // 2
ObservationTimesRule ==
    SnapshotsSet =>
        LET ot == run.observation_times
            arrival_time == run.patient_data.arrival_time
            duration_minutes == run.condition.duration_minutes
        IN  /\ Len(ot) \in {1, 2}
            /\ ot[1] = arrival_time
            /\ Len(ot) = 2 <=> duration_minutes > 120
            /\ Len(ot) = 2 => ot[2] = arrival_time + (duration_minutes \div 2)

\* a stay of exactly 120 minutes, with its single snapshot
ObservationTimesWitness ==
    /\ SnapshotsSet
    /\ run.condition.duration_minutes = 120
    /\ Len(run.observation_times) = 1

\* C4: generate_vitals is called once for each observation snapshot
VitalsSampledPerSnapshot ==
    SnapshotsSet => run.vitals_calls = Len(run.observation_times)

----------------------------------------------------------------------------
(* C5, C6: generate_vitals *)

Within(value, range) == range[1] <= value /\ value <= range[2]

\* the range an adjustment names for a condition and a vital, if any
OverrideRange(name, vital_name) ==
    IF name = "Fever" /\ vital_name = "temperature" THEN {<<1000, 1030>>}
    ELSE IF name \in {"Asthma Exacerbation", "Shortness of Breath"}
              /\ vital_name = "respiratory_rate" THEN {<<200, 300>>}
    ELSE IF name \in {"Asthma Exacerbation", "Shortness of Breath"}
              /\ vital_name = "oxygen_saturation" THEN {<<880, 950>>}
    ELSE {}

InDeclaredRange(value, vital_name) ==
    \/ Within(value, VITAL_SIGNS[vital_name].normal_range)
    \/ Within(value, VITAL_SIGNS[vital_name].abnormal_range)

\* C5: generate_vitals returns six readings, one for each vital, each in the vital's
\* normal or abnormal range or in the range of the adjustment the condition triggers
VitalsInDeclaredRanges ==
    /\ run.pc = "vitals_done" => DOMAIN run.vitals = VitalSet /\ Cardinality(VitalSet) = 6
    /\ \A v \in DOMAIN run.vitals :
          \/ InDeclaredRange(run.vitals[v].value, v)
          \/ \E range \in OverrideRange(run.condition.name, v) :
                Within(run.vitals[v].value, range)

\* an adjusted reading of a finished call
VitalsInDeclaredRangesWitness ==
    /\ run.pc = "vitals_done"
    /\ run.condition.name = "Asthma Exacerbation"
    /\ run.vitals["oxygen_saturation"].value = 880
    /\ run.vitals["heart_rate"].value = 1500

\* C6: for the condition "Fever" the temperature lies in [100.0, 103.0] whatever the
\* roll chose, and the other five vitals stay in their own declared ranges
FeverTemperatureOverride ==
    run.condition.name = "Fever" =>
        \A v \in DOMAIN run.vitals :
            IF v = "temperature"
                THEN Within(run.vitals[v].value, <<1000, 1030>>)
                ELSE InDeclaredRange(run.vitals[v].value, v)

\* a Fever call that is finished, with a heart rate outside the override's numbers
FeverTemperatureWitness ==
    /\ run.pc = "vitals_done"
    /\ run.condition.name = "Fever"
    /\ run.vitals["temperature"].value = 1030
    /\ run.vitals["heart_rate"].value = 400

----------------------------------------------------------------------------
(* C7, C8: select_condition *)

Selected == run.pc = "generate_vitals"

\* C7: the discharge is strictly after the arrival, by duration_minutes minutes, and
\* duration_minutes is round(avg_duration_min * m) for some m in [0.5, 2.0]
\* (x2 / 2 runs over the products avg_duration_min * m by halves)
DurationAndDischarge ==
    Selected =>
        LET c == run.condition
            arrival_time == run.patient_data.arrival_time
        IN  /\ c.duration_minutes > 0
            /\ c.discharge_time > arrival_time
            /\ c.discharge_time = arrival_time + c.duration_minutes
            /\ \E x2 \in c.avg_duration_min..(4 * c.avg_duration_min) :
                  RoundHalfEven(x2, 2) = c.duration_minutes

\* a duration the truncation has cut: int(150 * 0.75) = 112
DurationWitness ==
    /\ Selected
    /\ run.condition.avg_duration_min = 150
    /\ run.condition.duration_minutes = 112

\* C8: the pool has 20 entries for ages 18 to 65, 22 below 18 and 22 above 65; the
\* two extra entries come after the 20 of the table, and the table stays as it was
PoolSizes ==
    /\ run.er_conditions = ER_CONDITIONS
    /\ Selected =>
          LET age == Age(run.today, run.patient_data.birth_date)
              pool == run.available_conditions
          IN  /\ Len(ER_CONDITIONS) = 20
              /\ SubSeq(pool, 1, 20) = ER_CONDITIONS
              /\ (18 <= age /\ age <= 65) => Len(pool) = 20
              /\ age < 18 => Len(pool) = 22 /\ SubSeq(pool, 21, 22) = PediatricConditions
              /\ age > 65 => Len(pool) = 22 /\ SubSeq(pool, 21, 22) = GeriatricConditions

\* a pediatric pool of 22 entries, its last entry selected
PoolSizesWitness ==
    /\ Selected
    /\ Age(run.today, run.patient_data.birth_date) = 17
    /\ Len(run.available_conditions) = 22
    /\ run.condition.name = "Croup"

----------------------------------------------------------------------------
(* C9: an invalid window *)

\* C9: with end_time <= start_time generation fails at its start: it neither
\* returns an arrival sequence nor returns its output
InvalidWindowFailsFast ==
    run.end_time <= run.start_time => run.pc \notin {"loop", "done"}

----------------------------------------------------------------------------
(* C10: the patient identity tokens *)

RECURSIVE LexLess(_, _)
\* string order on digit sequences
LexLess(s, t) ==
    IF s = << >> THEN t # << >>
    ELSE IF t = << >> THEN FALSE
    ELSE IF Head(s) # Head(t) THEN Head(s) < Head(t)
    ELSE LexLess(Tail(s), Tail(t))

\* C10: the k-th call of generate_patient returns the token of counter value k, the
\* tokens are strictly increasing, and patient_counter is one more than the calls made
PatientTokensSequential ==
    /\ run.patient_counter = Len(run.issued) + 1
    /\ \A k \in 1..Len(run.issued) :
          /\ run.issued[k] = [prefix |-> "PAT", digits |-> <<0, 0, 0, 0, 0, k>>]
          /\ \A j \in 1..(k - 1) : LexLess(run.issued[j].digits, run.issued[k].digits)

\* two patients generated
PatientTokensWitness ==
    /\ run.pc = "done"
    /\ Len(run.issued) = 2

----------------------------------------------------------------------------
(* C11: the medical-record-number tokens *)

RECURSIVE Number(_)
\* the number a sequence of decimal digits writes
Number(s) == IF s = << >> THEN 0 ELSE 10 * Number(SubSeq(s, 1, Len(s) - 1)) + s[Len(s)]

\* C11: within one run no two patients carry the same MRN token, and the MRN tokens
\* are minted in sequence, each the successor of the one before
MrnTokensUniqueSequential ==
    \A k \in 1..Len(run.received) :
        /\ run.received[k].prefix = "MRN"
        /\ \A j \in 1..(k - 1) : run.received[j] # run.received[k]
        /\ k > 1 => Number(run.received[k].digits) = Number(run.received[k - 1].digits) + 1

----------------------------------------------------------------------------
(* C12: termination of generate_arrival_times *)

\* generate_arrival_times has returned its list
ArrivalsReturned == run.pc = "loop"

\* C12: with end_time > start_time and gaps of at least a positive minimum, the loop
\* of generate_arrival_times ends after finitely many passes with current >= end_time
\* and returns a finite list, and every pass of the loop moves current forward
ArrivalLoopTerminates ==
    /\ <>ArrivalsReturned
    /\ [](ArrivalsReturned =>
            /\ run.current >= run.end_time
            /\ run.arrival_times = run.arrivals
            /\ Len(run.arrival_times) <= run.end_time - run.start_time)
    /\ [][run.pc = "arrivals" /\ run'.pc = "arrivals" => run'.current > run.current]_vars

\* a list of three arrivals returned, the loop having passed the end of the window
ArrivalLoopTerminatesWitness ==
    /\ ArrivalsReturned
    /\ Len(run.arrival_times) = 3
    /\ run.current > run.end_time

====
